---- MODULE Spec2Model ----
(***************************************************************************)
(* Shario: the Session Registry (networkNotifiee over the libp2p host) and *)
(* the file-transfer protocol (transfer.Manager), as state machines.       *)
(***************************************************************************)
EXTENDS Integers, Sequences, FiniteSets, Bags, TLC

(***************************************************************************)
(* Bounds of the model                                                     *)
(***************************************************************************)
\* connection-opened notifications delivered by the transport in one run
MaxOpens == 3

(***************************************************************************)
(* Session Registry: identifiers, connections, subscribers                 *)
(***************************************************************************)
PeerIDs == {"p1", "p2"}

\* the two listen addresses of a dual-stack peer: one connection over each
Conns == {"ip4", "ip6"}

ConnIDs == PeerIDs \X Conns

\* the subscribers registered with AddEventHandler
Handlers == {"chat", "transfer"}

NoPeer == [none |-> TRUE]

VARIABLES
    live,          \* transport: live[p] = the connections the swarm holds to p
    closePending,  \* connections closed by the transport whose Disconnected callback has not started
    cb,            \* cb[<<p, c>>]: position of the notifiee callback of connection c
    peers,         \* Manager.peers: identifier -> Peer, or NoPeer
    evq,           \* handler goroutines spawned by notifyPeerConnected/Disconnected, not yet run
    obs,           \* obs[h][p]: the last event handler h observed for p
    nConnEv,       \* nConnEv[p]: OnPeerConnected events emitted for p
    nDiscEv,       \* nDiscEv[p]: OnPeerDisconnected events emitted for p
    nSessions,     \* nSessions[p]: times the live-connection count of p went from 0 to 1
    nZero,         \* nZero[p]: times the live-connection count of p went back to 0
    opens,         \* connection-opened notifications so far
    transfers,     \* transfers[n][t]: transfer.Manager.transfers of node n, or NoTransfer
    disk,          \* disk[n][t]: the chunks written to the destination file of t on node n
    net,           \* transfer messages written to a substream whose OnMessage has not run
    tasks,         \* running sendFile goroutines
    link,          \* whether the two nodes hold a connection to each other
    dialogs,       \* offers waiting for the answer of the offer handler
    calls,         \* spawned AcceptTransfer / RejectTransfer / CancelTransfer calls not yet run
    discq,         \* <<n, p>>: the transfer manager of n has an OnPeerDisconnected(p) call not yet run
    userOps,       \* CancelTransfer calls made by the user so far
    writes,        \* handleTransferData goroutines between file.Write and the update of the record
    updates,       \* the states passed to the transfer-update subscriber so far
    cancelReq,     \* <<n, t>>: CancelTransfer was called on n for t while t was pending or active
    panicked,      \* nodes whose process was ended by a panic
    injected,      \* messages written so far by a peer that does not run this program
    errs,          \* <<n, t>>: an I/O error occurred on n in an operation on transfer t
    rooms,         \* chat.Manager.rooms of node HostID: room identifier -> Room, or NoRoom
    globalRoom,    \* chat.Manager.globalRoom: "nil" until createGlobalRoom, then "global"
    online,        \* online[p]: network.Manager.peers of HostID holds a Peer for p
    sessions,      \* sessions[p]: Peer objects the Connected callback created for p so far
    Nickname,      \* Nickname[p][s]: the Nickname field of the s-th Peer object of p
    chatEv,        \* spawned chat OnPeerConnected / OnPeerDisconnected goroutines not yet run
    chatNet,       \* chat messages read from a substream whose chat OnMessage has not run
    renaming,      \* handleNicknameChange goroutines past updatePeerNickname, before updatePeerNicknameInRooms
    remoteNick,    \* remoteNick[p]: the nickname field of the chat manager of peer p
    announced,     \* announced[p]: new_nickname of the last nickname_change p sent to HostID, "" if none
    chatOps,       \* operations of the peers and of the local user so far, by kind
    held,          \* the locks held by a task that is inside network.Manager.SendMessage
    mNickname,     \* m.nickname of the chat manager of HostID
    ctx,           \* ctx[n]: the root context of node n: "new", "running" after Manager.Start, "done" once cancelled
    loops,         \* loops[n]: the discovery loops of node n that are running
    listening,     \* listening[n]: the libp2p host of node n holds its listeners
    identity,      \* identity.Manager.identity with the derived peerID, or NoIdentity
    idFile,        \* the content of the identity file, or NoIdentity when there is none
    idCall         \* the last call on the identity manager: number, operation, argument, error

regVars == <<live, closePending, cb, peers, evq, obs, nConnEv, nDiscEv, nSessions, nZero, opens>>

xferVars == <<transfers, disk, net, tasks, link, dialogs, calls, discq, userOps,
              writes, updates, cancelReq, panicked, injected, errs>>

chatVars == <<rooms, globalRoom, online, sessions, Nickname, chatEv, chatNet, renaming,
              remoteNick, announced, chatOps, held, mNickname>>

appVars == <<ctx, loops, listening>>

idVars == <<identity, idFile, idCall>>

vars == <<live, closePending, cb, peers, evq, obs, nConnEv, nDiscEv, nSessions, nZero, opens,
          transfers, disk, net, tasks, link, dialogs, calls, discq, userOps,
          writes, updates, cancelReq, panicked, injected, errs,
          rooms, globalRoom, online, sessions, Nickname, chatEv, chatNet, renaming,
          remoteNick, announced, chatOps, held, mNickname, ctx, loops, listening, identity, idFile, idCall>>

\* Peer{ID, Nickname: ID[:8], Addresses: [RemoteMultiaddr]}
NewPeer(p, c) == [ID |-> p, Addresses |-> <<c>>]

\* host.Network().Connectedness(peerID)
Connectedness(p) == IF live[p] # {} THEN "Connected" ELSE "NotConnected"

\* one goroutine per registered handler: go handler.OnPeerConnected / OnPeerDisconnected
Event(h, kind, p) == [h |-> h, kind |-> kind, p |-> p]

notifyPeerConnected(p) == evq (+) SetToBag({Event(h, "connected", p) : h \in Handlers})

notifyPeerDisconnected(p) == evq (+) SetToBag({Event(h, "disconnected", p) : h \in Handlers})

InitRegistry ==
    /\ live = [p \in PeerIDs |-> {}]
    /\ closePending = {}
    /\ cb = [c \in ConnIDs |-> "none"]
    /\ peers = [p \in PeerIDs |-> NoPeer]
    /\ evq = EmptyBag
    /\ obs = [h \in Handlers |-> [p \in PeerIDs |-> "none"]]
    /\ nConnEv = [p \in PeerIDs |-> 0]
    /\ nDiscEv = [p \in PeerIDs |-> 0]
    /\ nSessions = [p \in PeerIDs |-> 0]
    /\ nZero = [p \in PeerIDs |-> 0]
    /\ opens = 0

\* the transport adds a connection to p and calls Connected for it
ConnOpen(p, c) ==
    /\ opens < MaxOpens
    /\ cb[<<p, c>>] = "none"
    /\ c \notin live[p]
    /\ live' = [live EXCEPT ![p] = @ \cup {c}]
    /\ cb' = [cb EXCEPT ![<<p, c>>] = "c_lock"]
    /\ nSessions' = [nSessions EXCEPT ![p] = IF live[p] = {} THEN @ + 1 ELSE @]
    /\ opens' = opens + 1
    /\ UNCHANGED <<xferVars, chatVars, appVars, idVars, closePending, peers, evq, obs, nConnEv, nDiscEv, nZero>>

\* the transport drops a connection; its Disconnected callback runs after its
\* Connected callback has returned
ConnClose(p, c) ==
    /\ c \in live[p]
    /\ live' = [live EXCEPT ![p] = @ \ {c}]
    /\ closePending' = closePending \cup {<<p, c>>}
    /\ nZero' = [nZero EXCEPT ![p] = IF live[p] = {c} THEN @ + 1 ELSE @]
    /\ UNCHANGED <<xferVars, chatVars, appVars, idVars, cb, peers, evq, obs, nConnEv, nDiscEv, nSessions, opens>>

\* Connected without the duplicate check: every notification inserts and notifies
ConnectedLocked_NoDuplicateCheck(p, c) ==
    /\ cb[<<p, c>>] = "c_lock"
    /\ peers' = [peers EXCEPT ![p] = NewPeer(p, c)]
    /\ cb' = [cb EXCEPT ![<<p, c>>] = "c_notify"]
    /\ UNCHANGED <<xferVars, chatVars, appVars, idVars, live, closePending, evq, obs, nConnEv, nDiscEv, nSessions, nZero, opens>>

\* Connected, under peersMutex: an existing entry gets the address appended,
\* otherwise the new Peer is inserted
ConnectedLocked(p, c) ==
    /\ cb[<<p, c>>] = "c_lock"
    /\ IF peers[p] # NoPeer
         THEN /\ peers' = [peers EXCEPT ![p].Addresses = Append(@, c)]
              /\ cb' = [cb EXCEPT ![<<p, c>>] = "open"]
         ELSE /\ peers' = [peers EXCEPT ![p] = NewPeer(p, c)]
              /\ cb' = [cb EXCEPT ![<<p, c>>] = "c_notify"]
    /\ UNCHANGED <<xferVars, chatVars, appVars, idVars, live, closePending, evq, obs, nConnEv, nDiscEv, nSessions, nZero, opens>>

\* Connected, after the unlock: manager.notifyPeerConnected(peer)
ConnectedNotify(p, c) ==
    /\ cb[<<p, c>>] = "c_notify"
    /\ evq' = notifyPeerConnected(p)
    /\ nConnEv' = [nConnEv EXCEPT ![p] = @ + 1]
    /\ cb' = [cb EXCEPT ![<<p, c>>] = "open"]
    /\ UNCHANGED <<xferVars, chatVars, appVars, idVars, live, closePending, peers, obs, nDiscEv, nSessions, nZero, opens>>

\* Disconnected: the Connectedness query, before any lock is taken
DisconnectedCheck(p, c) ==
    /\ cb[<<p, c>>] = "open"
    /\ <<p, c>> \in closePending
    /\ closePending' = closePending \ {<<p, c>>}
    /\ cb' = [cb EXCEPT ![<<p, c>>] =
                IF Connectedness(p) = "Connected" THEN "none" ELSE "d_lock"]
    /\ UNCHANGED <<xferVars, chatVars, appVars, idVars, live, peers, evq, obs, nConnEv, nDiscEv, nSessions, nZero, opens>>

\* Disconnected, under peersMutex: delete(manager.peers, peerID)
DisconnectedLocked(p, c) ==
    /\ cb[<<p, c>>] = "d_lock"
    /\ peers' = [peers EXCEPT ![p] = NoPeer]
    /\ cb' = [cb EXCEPT ![<<p, c>>] = "d_notify"]
    /\ UNCHANGED <<xferVars, chatVars, appVars, idVars, live, closePending, evq, obs, nConnEv, nDiscEv, nSessions, nZero, opens>>

\* Disconnected, after the unlock: manager.notifyPeerDisconnected(peerID)
DisconnectedNotify(p, c) ==
    /\ cb[<<p, c>>] = "d_notify"
    /\ evq' = notifyPeerDisconnected(p)
    /\ nDiscEv' = [nDiscEv EXCEPT ![p] = @ + 1]
    /\ cb' = [cb EXCEPT ![<<p, c>>] = "none"]
    /\ UNCHANGED <<xferVars, chatVars, appVars, idVars, live, closePending, peers, obs, nConnEv, nSessions, nZero, opens>>

\* one spawned handler goroutine runs: the subscriber observes the event
HandlerRun(e) ==
    /\ BagIn(e, evq)
    /\ evq' = evq (-) SetToBag({e})
    /\ obs' = [obs EXCEPT ![e.h][e.p] = e.kind]
    /\ UNCHANGED <<xferVars, chatVars, appVars, idVars, live, closePending, cb, peers, nConnEv, nDiscEv, nSessions, nZero, opens>>

Events == {Event(h, k, p) : h \in Handlers, k \in {"connected", "disconnected"}, p \in PeerIDs}

NextRegistry ==
    \/ \E p \in PeerIDs, c \in Conns : ConnOpen(p, c)
    \/ \E p \in PeerIDs, c \in Conns : ConnClose(p, c)
    \/ \E p \in PeerIDs, c \in Conns : ConnectedLocked(p, c)
    \/ \E p \in PeerIDs, c \in Conns : ConnectedNotify(p, c)
    \/ \E p \in PeerIDs, c \in Conns : DisconnectedCheck(p, c)
    \/ \E p \in PeerIDs, c \in Conns : DisconnectedLocked(p, c)
    \/ \E p \in PeerIDs, c \in Conns : DisconnectedNotify(p, c)
    \/ \E e \in Events : HandlerRun(e)

(***************************************************************************)
(* Session Registry: properties                                            *)
(***************************************************************************)
RECURSIVE SumOver(_, _)
SumOver(f, S) == IF S = {} THEN 0 ELSE LET x == CHOOSE y \in S : TRUE IN f[x] + SumOver(f, S \ {x})

\* every Connected and Disconnected callback delivered so far has returned
Quiescent == closePending = {} /\ \A c \in ConnIDs : cb[c] \in {"none", "open"}

\* C1: once the delivered callbacks have returned, the number of OnPeerConnected
\* events equals the number of distinct identifiers that ever held a live
\* connection, and the number of OnPeerDisconnected events equals the number of
\* times an identifier's live-connection count went to zero.
C1_EventCounts ==
    Quiescent =>
        /\ SumOver(nConnEv, PeerIDs) = Cardinality({p \in PeerIDs : nSessions[p] > 0})
        /\ SumOver(nDiscEv, PeerIDs) = SumOver(nZero, PeerIDs)

\* C2: OnPeerConnected and OnPeerDisconnected are emitted once per identifier per
\* logical session, under every interleaving of the callbacks: at no time have
\* more OnPeerConnected events been emitted for an identifier than sessions have
\* begun, nor more OnPeerDisconnected events than sessions have ended.
C2_OncePerSession ==
    \A p \in PeerIDs : nConnEv[p] <= nSessions[p] /\ nDiscEv[p] <= nZero[p]

\* C3: the peer table holds one entry per identifier, keyed by it; a Connected
\* callback that finds an entry only appends the remote address and returns
\* without emitting; a Disconnected callback that finds the transport still
\* Connected returns with the table and the emitted events unchanged.
C3_OneEntryPerIdentifier ==
    /\ [](\A p \in PeerIDs : peers[p] # NoPeer => peers[p].ID = p)
    /\ [][\A p \in PeerIDs, c \in Conns :
            /\ (cb[<<p, c>>] = "c_lock" /\ cb'[<<p, c>>] # "c_lock" /\ peers[p] # NoPeer)
                 => /\ peers' = [peers EXCEPT ![p].Addresses = Append(@, c)]
                    /\ cb'[<<p, c>>] = "open"
                    /\ evq' = evq /\ nConnEv' = nConnEv
            /\ (cb[<<p, c>>] = "open" /\ cb'[<<p, c>>] # "open" /\ Connectedness(p) = "Connected")
                 => /\ peers' = peers
                    /\ cb'[<<p, c>>] = "none"
                    /\ evq' = evq /\ nDiscEv' = nDiscEv]_vars

\* a dual-stack peer after its second connection was appended and then closed:
\* the entry is still there with both addresses, one connected event, no disconnected event
C3_Witness ==
    \E p \in PeerIDs :
        /\ Quiescent
        /\ peers[p] # NoPeer /\ Len(peers[p].Addresses) = 2
        /\ Cardinality(live[p]) = 1
        /\ nConnEv[p] = 1 /\ nDiscEv[p] = 0

\* C4: a subscriber observes OnPeerDisconnected(p) only when the last event it
\* observed for p is OnPeerConnected(p).
C4_ConnectedBeforeDisconnected ==
    [][\A h \in Handlers, p \in PeerIDs :
          CopiesIn(Event(h, "disconnected", p), evq') < CopiesIn(Event(h, "disconnected", p), evq)
            => obs[h][p] = "connected"]_vars

(***************************************************************************)
(* File transfer: two nodes, A offering files to B                         *)
(***************************************************************************)
Nodes == {"A", "B"}

\* the only remote peer of a node in this two-node system
RemotePeer(n) == IF n = "A" THEN "B" ELSE "A"

\* a third node of the network, connected to both and party to no transfer
OtherPeer == "C"

\* the peers a node can hold a connection to
Peers == Nodes \cup {OtherPeer}

\* the node on which the user calls SendFile
Senders == {"A"}

\* transfer identifiers: fmt.Sprintf("send_%d", time.Now().UnixNano())
TIDs == {"t1"}

\* sizes of the files offered: empty, one short chunk, exactly one full chunk,
\* one full chunk followed by a short one, two full chunks, two full chunks
\* followed by a short one
FileSizes == {0, 5, 4096, 4101, 8192, 8197}

\* const chunkSize = 4 * 1024
chunkSize == 4096

\* buf := make([]byte, 4096) of handleTransferStream: one Read per substream
StreamReadBuf == 4096

\* length of "send_" followed by the 19 digits of a UnixNano timestamp
TransferIDLen == 24

\* length of {"type":"data","data":{"chunk_index":,"data":"","is_last":,"transfer_id":""}}
DataEnvelopeLen == 77

\* user calls of CancelTransfer in one run
MaxUserCancels == 1

\* messages written in one run by a peer that does not run this program
MaxInjected == 2

\* messages naming a transfer they are not part of, in one run
MaxForged == 1

\* sizes of the chunks such a peer sends
InjectLens == {3, 5}

Terminal == {"completed", "failed", "cancelled"}

NoTransfer == [none |-> TRUE]

NoSum == [none |-> TRUE]

NoData == [none |-> TRUE]

Min(a, b) == IF a <= b THEN a ELSE b

RECURSIVE Gcd(_, _)
Gcd(a, b) == IF b = 0 THEN a ELSE Gcd(b, a % b)

\* float64(n) / float64(d) as an exact fraction in lowest terms; 1/0 stands for
\* the +Inf and 0/0 for the NaN of a division by zero
Ratio(n, d) ==
    IF d = 0 THEN [n |-> IF n = 0 THEN 0 ELSE 1, d |-> 0]
    ELSE LET g == Gcd(n, d) IN IF g = 0 THEN [n |-> 0, d |-> 1] ELSE [n |-> n \div g, d |-> d \div g]

Hundred == Ratio(100, 1)

\* the bytes [idx * chunkSize, idx * chunkSize + len) of the file sent as transfer t
Chunk(t, idx, len) == [tid |-> t, idx |-> idx, len |-> len]

NumChunks(size) == (size + chunkSize - 1) \div chunkSize

\* the content of the file of transfer t, as the chunks file.Read cuts it into
FileContent(t, size) ==
    [i \in 1..NumChunks(size) |-> Chunk(t, i - 1, Min(chunkSize, size - (i - 1) * chunkSize))]

\* calculateChecksum: SHA-256 of the content, taken as collision free
calculateChecksum(content) == [sha256 |-> content]

\* base64.StdEncoding.EncodeToString: 4 characters per 3 bytes, padded
Base64Len(n) == 4 * ((n + 2) \div 3)

\* decimal digits of a chunk index
Digits(i) == IF i < 10 THEN 1 ELSE IF i < 100 THEN 2 ELSE 3

\* json.Marshal of the data message of sendFileChunk
FrameLen(m) ==
    IF m.type = "data" /\ m.data # NoData
      THEN DataEnvelopeLen + Digits(m.chunk_index) + Base64Len(m.data.len)
             + (IF m.is_last THEN 4 ELSE 5) + TransferIDLen
      ELSE DataEnvelopeLen + TransferIDLen

Msg(type, from, to, t) ==
    [type |-> type, from |-> from, to |-> to, tid |-> t, size |-> 0, checksum |-> NoSum,
     chunk_index |-> 0, data |-> NoData, is_last |-> FALSE]

\* network.Manager.SendMessage: the stream cannot be opened without a connection
SendMessage(m) == IF link THEN net (+) SetToBag({m}) ELSE net

Call(n, op, t) == [node |-> n, op |-> op, tid |-> t]

Task(n, t, pc, sent, idx) == [node |-> n, tid |-> t, pc |-> pc, totalSent |-> sent, chunkIndex |-> idx]

SetTransfer(n, t, tr) == [transfers EXCEPT ![n][t] = tr]

\* what the transfer-update subscriber is handed by notifyTransferUpdate: the
\* fields of the record at the time of the call
Snapshot(n, t, tr) ==
    [node |-> n, tid |-> t, Status |-> tr.Status, Progress |-> tr.Progress,
     Transferred |-> tr.Transferred]

\* notifyTransferUpdate, called once for each record of the sequence
notifyTransferUpdate(n, t, trs) == updates \cup {Snapshot(n, t, trs[i]) : i \in 1..Len(trs)}

InitTransfer ==
    /\ transfers = [n \in Nodes |-> [t \in TIDs |-> NoTransfer]]
    /\ disk = [n \in Nodes |-> [t \in TIDs |-> << >>]]
    /\ net = EmptyBag
    /\ tasks = EmptyBag
    /\ link = TRUE
    /\ dialogs = {}
    /\ calls = EmptyBag
    /\ discq = {}
    /\ userOps = 0
    /\ writes = EmptyBag
    /\ updates = {}
    /\ cancelReq = {}
    /\ panicked = {}
    /\ injected = 0
    /\ errs = {}

\* SendFile: the record is stored as pending and the offer sent; a failed send
\* makes it failed
SendFile(n, t, size) ==
    /\ transfers[n][t] = NoTransfer
    /\ LET tr == [Size |-> size, Transferred |-> 0, Progress |-> Ratio(0, 1),
                  Status |-> "pending", Direction |-> "send", PeerID |-> RemotePeer(n),
                  Checksum |-> calculateChecksum(FileContent(t, size)),
                  file |-> "nil", Error |-> FALSE]
           offer == [Msg("offer", n, RemotePeer(n), t) EXCEPT !.size = size, !.checksum = tr.Checksum]
       IN  /\ transfers' = SetTransfer(n, t,
                             IF link THEN tr ELSE [tr EXCEPT !.Status = "failed", !.Error = TRUE])
           /\ net' = SendMessage(offer)
           /\ updates' = IF link THEN updates
                          ELSE notifyTransferUpdate(n, t, <<[tr EXCEPT !.Status = "failed", !.Error = TRUE]>>)
           /\ errs' = IF link THEN errs ELSE errs \cup {<<n, t>>}
    /\ UNCHANGED <<regVars, chatVars, appVars, idVars, disk, tasks, link, dialogs, calls, discq, userOps, writes, cancelReq, panicked, injected>>

\* OnMessage of a message longer than the read buffer: json.Unmarshal fails on the
\* truncated bytes and the message is dropped
OnMessageTruncated(m) ==
    /\ BagIn(m, net)
    /\ FrameLen(m) > StreamReadBuf
    /\ net' = net (-) SetToBag({m})
    /\ UNCHANGED <<regVars, chatVars, appVars, idVars, transfers, disk, tasks, link, dialogs, calls, discq, userOps, writes, updates, cancelReq, panicked, injected, errs>>

\* handleTransferOffer: store the transfer as pending and ask the offer handler
handleTransferOffer(m) ==
    /\ BagIn(m, net) /\ m.type = "offer"
    /\ FrameLen(m) <= StreamReadBuf
    /\ net' = net (-) SetToBag({m})
    /\ transfers' = SetTransfer(m.to, m.tid,
                      [Size |-> m.size, Transferred |-> 0, Progress |-> Ratio(0, 1),
                       Status |-> "pending", Direction |-> "receive", PeerID |-> m.from,
                       Checksum |-> m.checksum, file |-> "nil", Error |-> FALSE])
    /\ dialogs' = dialogs \cup {<<m.to, m.tid>>}
    /\ UNCHANGED <<regVars, chatVars, appVars, idVars, disk, tasks, link, calls, discq, userOps, writes, updates, cancelReq, panicked, injected, errs>>

\* the offer handler returns: go m.AcceptTransfer(id) or go m.RejectTransfer(id)
OfferAnswered(n, t, accepted) ==
    /\ <<n, t>> \in dialogs
    /\ dialogs' = dialogs \ {<<n, t>>}
    /\ calls' = calls (+) SetToBag({Call(n, IF accepted THEN "accept" ELSE "reject", t)})
    /\ UNCHANGED <<regVars, chatVars, appVars, idVars, transfers, disk, net, tasks, link, discq, userOps, writes, updates, cancelReq, panicked, injected, errs>>

\* AcceptTransfer: create the destination file, become active, send accept; a
\* failed os.Create returns before the record is touched, a failed send returns
\* after it was made active
AcceptTransfer(n, t, createOk) ==
    /\ BagIn(Call(n, "accept", t), calls)
    /\ calls' = calls (-) SetToBag({Call(n, "accept", t)})
    /\ LET tr == transfers[n][t] IN
       IF tr = NoTransfer \/ tr.Direction # "receive"
         THEN UNCHANGED <<transfers, disk, net, updates, errs>>
       ELSE IF ~createOk
         THEN /\ errs' = errs \cup {<<n, t>>}
              /\ UNCHANGED <<transfers, disk, net, updates>>
         ELSE LET acc == [tr EXCEPT !.file = "open", !.Status = "active"] IN
              /\ transfers' = SetTransfer(n, t, acc)
              /\ disk' = [disk EXCEPT ![n][t] = << >>]
              /\ net' = SendMessage(Msg("accept", n, tr.PeerID, t))
              /\ updates' = IF link THEN notifyTransferUpdate(n, t, <<acc>>) ELSE updates
              /\ errs' = IF link THEN errs ELSE errs \cup {<<n, t>>}
    /\ UNCHANGED <<regVars, chatVars, appVars, idVars, tasks, link, dialogs, discq, userOps, writes, cancelReq, panicked, injected>>

\* RejectTransfer: become cancelled, send reject
RejectTransfer(n, t) ==
    /\ BagIn(Call(n, "reject", t), calls)
    /\ calls' = calls (-) SetToBag({Call(n, "reject", t)})
    /\ LET tr == transfers[n][t] IN
       IF tr = NoTransfer
         THEN UNCHANGED <<transfers, net, updates>>
         ELSE LET rej == [tr EXCEPT !.Status = "cancelled"] IN
              /\ transfers' = SetTransfer(n, t, rej)
              /\ net' = SendMessage(Msg("reject", n, tr.PeerID, t))
              /\ updates' = IF link THEN notifyTransferUpdate(n, t, <<rej>>) ELSE updates
    /\ UNCHANGED <<regVars, chatVars, appVars, idVars, disk, tasks, link, dialogs, discq, userOps, writes, cancelReq, panicked, injected, errs>>

\* transfer.file.Close() on a handle that is not nil; the field keeps the handle
CloseFile(f) == IF f = "nil" THEN "nil" ELSE "closed"

\* CancelTransfer: become cancelled, close the file, send cancel (best effort)
CancelTransfer(n, t) ==
    LET tr == transfers[n][t] IN
    IF tr = NoTransfer
      THEN UNCHANGED <<transfers, net, updates, cancelReq>>
      ELSE LET can == [tr EXCEPT !.Status = "cancelled", !.file = CloseFile(tr.file)] IN
           /\ transfers' = SetTransfer(n, t, can)
           /\ net' = SendMessage(Msg("cancel", n, tr.PeerID, t))
           /\ updates' = notifyTransferUpdate(n, t, <<can>>)
           /\ cancelReq' = IF tr.Status \in {"pending", "active"}
                             THEN cancelReq \cup {<<n, t>>} ELSE cancelReq

\* the user presses Cancel on a transfer of the list
UserCancelTransfer(n, t) ==
    /\ userOps < MaxUserCancels
    /\ transfers[n][t] # NoTransfer
    /\ userOps' = userOps + 1
    /\ CancelTransfer(n, t)
    /\ UNCHANGED <<regVars, chatVars, appVars, idVars, disk, tasks, link, dialogs, calls, discq, writes, panicked, injected, errs>>

\* the transport loses the connection between the nodes; each registry emits
\* OnPeerDisconnected to its transfer manager
LinkDown ==
    /\ link
    /\ link' = FALSE
    /\ discq' = discq \cup {<<n, RemotePeer(n)>> : n \in Nodes}
    /\ UNCHANGED <<regVars, chatVars, appVars, idVars, transfers, disk, net, tasks, dialogs, calls, userOps, writes, updates, cancelReq, panicked, injected, errs>>

\* a peer that has no transfer with n loses its last connection to n; the
\* registry of n emits OnPeerDisconnected for it
OtherPeerDown(n) ==
    /\ <<n, OtherPeer>> \notin discq
    /\ discq' = discq \cup {<<n, OtherPeer>>}
    /\ UNCHANGED <<regVars, chatVars, appVars, idVars, transfers, disk, net, tasks, link, dialogs, calls, userOps, writes, updates, cancelReq, panicked, injected, errs>>

\* OnPeerDisconnected without the comparison of transfer.PeerID with the peer
OnPeerDisconnected_AnyPeer(n, p) ==
    /\ <<n, p>> \in discq
    /\ discq' = discq \ {<<n, p>>}
    /\ calls' = calls (+) SetToBag({Call(n, "cancel", t) : t \in
                   {u \in TIDs : /\ transfers[n][u] # NoTransfer
                                 /\ transfers[n][u].Status \in {"active", "pending"}}})
    /\ UNCHANGED <<regVars, chatVars, appVars, idVars, transfers, disk, net, tasks, link, dialogs, userOps, writes, updates, cancelReq, panicked, injected, errs>>

\* OnPeerDisconnected(p) on node n: collect the pending and active transfers
\* with p under the read lock, then cancel each
OnPeerDisconnected(n, p) ==
    /\ <<n, p>> \in discq
    /\ discq' = discq \ {<<n, p>>}
    /\ calls' = calls (+) SetToBag({Call(n, "cancel", t) : t \in
                   {u \in TIDs : /\ transfers[n][u] # NoTransfer
                                 /\ transfers[n][u].PeerID = p
                                 /\ transfers[n][u].Status \in {"active", "pending"}}})
    /\ UNCHANGED <<regVars, chatVars, appVars, idVars, transfers, disk, net, tasks, link, dialogs, userOps, writes, updates, cancelReq, panicked, injected, errs>>

\* one CancelTransfer call of the loop of OnPeerDisconnected
CancelAffected(n, t) ==
    /\ BagIn(Call(n, "cancel", t), calls)
    /\ calls' = calls (-) SetToBag({Call(n, "cancel", t)})
    /\ CancelTransfer(n, t)
    /\ UNCHANGED <<regVars, chatVars, appVars, idVars, disk, tasks, link, dialogs, discq, userOps, writes, panicked, injected, errs>>

\* handleTransferAccept: become active and start sendFile
handleTransferAccept(m) ==
    /\ BagIn(m, net) /\ m.type = "accept"
    /\ FrameLen(m) <= StreamReadBuf
    /\ net' = net (-) SetToBag({m})
    /\ LET tr == transfers[m.to][m.tid] IN
       IF tr = NoTransfer
         THEN UNCHANGED <<transfers, tasks, updates>>
         ELSE LET act == [tr EXCEPT !.Status = "active"] IN
              /\ transfers' = SetTransfer(m.to, m.tid, act)
              /\ updates' = notifyTransferUpdate(m.to, m.tid, <<act>>)
              /\ tasks' = tasks (+) SetToBag({Task(m.to, m.tid, "open", 0, 0)})
    /\ UNCHANGED <<regVars, chatVars, appVars, idVars, disk, link, dialogs, calls, discq, userOps, writes, cancelReq, panicked, injected, errs>>

\* handleTransferReject: become cancelled
handleTransferReject(m) ==
    /\ BagIn(m, net) /\ m.type = "reject"
    /\ FrameLen(m) <= StreamReadBuf
    /\ net' = net (-) SetToBag({m})
    /\ LET tr == transfers[m.to][m.tid] IN
       IF tr = NoTransfer
         THEN UNCHANGED <<transfers, updates>>
         ELSE LET rej == [tr EXCEPT !.Status = "cancelled"] IN
              /\ transfers' = SetTransfer(m.to, m.tid, rej)
              /\ updates' = notifyTransferUpdate(m.to, m.tid, <<rej>>)
    /\ UNCHANGED <<regVars, chatVars, appVars, idVars, disk, tasks, link, dialogs, calls, discq, userOps, writes, cancelReq, panicked, injected, errs>>

\* handleTransferCancel: become cancelled and close the file
handleTransferCancel(m) ==
    /\ BagIn(m, net) /\ m.type = "cancel"
    /\ FrameLen(m) <= StreamReadBuf
    /\ net' = net (-) SetToBag({m})
    /\ LET tr == transfers[m.to][m.tid] IN
       IF tr = NoTransfer
         THEN UNCHANGED <<transfers, updates>>
         ELSE LET can == [tr EXCEPT !.Status = "cancelled", !.file = CloseFile(tr.file)] IN
              /\ transfers' = SetTransfer(m.to, m.tid, can)
              /\ updates' = notifyTransferUpdate(m.to, m.tid, <<can>>)
    /\ UNCHANGED <<regVars, chatVars, appVars, idVars, disk, tasks, link, dialogs, calls, discq, userOps, writes, cancelReq, panicked, injected, errs>>

\* a handleTransferData goroutine that has written its chunk and read
\* transfer.Transferred: sum is the value it is about to store
Write(n, t, sum, isLast) == [node |-> n, tid |-> t, sum |-> sum, is_last |-> isLast]

\* handleTransferData up to transfer.Transferred += bytesWritten: the chunk is
\* appended to the open file and the counter is read; a failed write makes the
\* transfer failed. No lock is held, so another handler can run before the
\* counter is stored.
handleTransferData(m, writeOk) ==
    /\ BagIn(m, net) /\ m.type = "data" /\ m.data # NoData
    /\ FrameLen(m) <= StreamReadBuf
    /\ net' = net (-) SetToBag({m})
    /\ LET tr == transfers[m.to][m.tid] IN
       IF tr = NoTransfer \/ tr.file = "nil"
         THEN UNCHANGED <<transfers, disk, writes, updates, errs>>
       ELSE IF tr.file = "closed" \/ ~writeOk
         THEN LET bad == [tr EXCEPT !.Status = "failed", !.Error = TRUE, !.file = "nil"] IN
              /\ transfers' = SetTransfer(m.to, m.tid, bad)
              /\ updates' = notifyTransferUpdate(m.to, m.tid, <<bad>>)
              /\ errs' = errs \cup {<<m.to, m.tid>>}
              /\ UNCHANGED <<disk, writes>>
       ELSE /\ disk' = [disk EXCEPT ![m.to][m.tid] = Append(@, m.data)]
            /\ writes' = writes (+) SetToBag({Write(m.to, m.tid, tr.Transferred + m.data.len, m.is_last)})
            /\ UNCHANGED <<transfers, updates, errs>>
    /\ UNCHANGED <<regVars, chatVars, appVars, idVars, tasks, link, dialogs, calls, discq, userOps, cancelReq, panicked, injected>>

\* handleTransferData from the store of transfer.Transferred on: the progress is
\* updated and reported; on is_last the transfer is completed, the file closed
\* and the handle dropped
handleTransferDataUpdate(w) ==
    /\ BagIn(w, writes)
    /\ writes' = writes (-) SetToBag({w})
    /\ LET tr  == transfers[w.node][w.tid]
           upd == [tr EXCEPT !.Transferred = w.sum, !.Progress = Ratio(w.sum * 100, tr.Size)]
           fin == [upd EXCEPT !.Progress = Hundred, !.Status = "completed", !.file = "nil"]
       IN  IF w.is_last
             THEN /\ transfers' = SetTransfer(w.node, w.tid, fin)
                  /\ updates' = notifyTransferUpdate(w.node, w.tid, <<upd, fin>>)
             ELSE /\ transfers' = SetTransfer(w.node, w.tid, upd)
                  /\ updates' = notifyTransferUpdate(w.node, w.tid, <<upd>>)
    /\ UNCHANGED <<regVars, chatVars, appVars, idVars, disk, net, tasks, link, dialogs, calls, discq, userOps, cancelReq, panicked, injected, errs>>

\* sendFile: os.Open and file.Stat
sendFileOpen(k, openOk) ==
    /\ BagIn(k, tasks) /\ k.pc = "open"
    /\ LET tr == transfers[k.node][k.tid] IN
       IF openOk
         THEN /\ tasks' = (tasks (-) SetToBag({k})) (+) SetToBag({[k EXCEPT !.pc = "loop"]})
              /\ UNCHANGED <<transfers, updates, errs>>
         ELSE LET bad == [tr EXCEPT !.Status = "failed", !.Error = TRUE] IN
              /\ tasks' = tasks (-) SetToBag({k})
              /\ transfers' = SetTransfer(k.node, k.tid, bad)
              /\ updates' = notifyTransferUpdate(k.node, k.tid, <<bad>>)
              /\ errs' = errs \cup {<<k.node, k.tid>>}
    /\ UNCHANGED <<regVars, chatVars, appVars, idVars, disk, net, link, dialogs, calls, discq, userOps, writes, cancelReq, panicked, injected>>

\* sendFileChunk with is_last decided by a short read instead of the byte count
sendFileChunk_LastOnShortRead(k, readOk) ==
    /\ BagIn(k, tasks) /\ k.pc = "loop"
    /\ LET tr        == transfers[k.node][k.tid]
           fileSize  == tr.Size
           bytesRead == Min(chunkSize, fileSize - k.totalSent)
           sent      == k.totalSent + bytesRead
           m         == [Msg("data", k.node, tr.PeerID, k.tid) EXCEPT
                           !.chunk_index = k.chunkIndex,
                           !.data = Chunk(k.tid, k.chunkIndex, bytesRead),
                           !.is_last = (bytesRead < chunkSize)]
       IN  /\ bytesRead > 0
           /\ IF readOk /\ link
                THEN LET upd == [tr EXCEPT !.Transferred = sent,
                                           !.Progress = Ratio(sent * 100, fileSize)] IN
                     /\ net' = SendMessage(m)
                     /\ transfers' = SetTransfer(k.node, k.tid, upd)
                     /\ updates' = notifyTransferUpdate(k.node, k.tid, <<upd>>)
                     /\ tasks' = (tasks (-) SetToBag({k})) (+)
                                   SetToBag({[k EXCEPT !.totalSent = sent, !.chunkIndex = @ + 1]})
                     /\ errs' = errs
                ELSE LET bad == [tr EXCEPT !.Status = "failed", !.Error = TRUE] IN
                     /\ net' = net
                     /\ transfers' = SetTransfer(k.node, k.tid, bad)
                     /\ updates' = notifyTransferUpdate(k.node, k.tid, <<bad>>)
                     /\ tasks' = tasks (-) SetToBag({k})
                     /\ errs' = errs \cup {<<k.node, k.tid>>}
    /\ UNCHANGED <<regVars, chatVars, appVars, idVars, disk, link, dialogs, calls, discq, userOps, writes, cancelReq, panicked, injected>>

\* sendFile, one turn of the loop that reads bytes: the chunk is written to its own
\* substream, then the progress is updated
sendFileChunk(k, readOk) ==
    /\ BagIn(k, tasks) /\ k.pc = "loop"
    /\ LET tr        == transfers[k.node][k.tid]
           fileSize  == tr.Size
           bytesRead == Min(chunkSize, fileSize - k.totalSent)
           sent      == k.totalSent + bytesRead
           m         == [Msg("data", k.node, tr.PeerID, k.tid) EXCEPT
                           !.chunk_index = k.chunkIndex,
                           !.data = Chunk(k.tid, k.chunkIndex, bytesRead),
                           !.is_last = (sent = fileSize)]
       IN  /\ bytesRead > 0
           /\ IF readOk /\ link
                THEN LET upd == [tr EXCEPT !.Transferred = sent,
                                           !.Progress = Ratio(sent * 100, fileSize)] IN
                     /\ net' = SendMessage(m)
                     /\ transfers' = SetTransfer(k.node, k.tid, upd)
                     /\ updates' = notifyTransferUpdate(k.node, k.tid, <<upd>>)
                     /\ tasks' = (tasks (-) SetToBag({k})) (+)
                                   SetToBag({[k EXCEPT !.totalSent = sent, !.chunkIndex = @ + 1]})
                     /\ errs' = errs
                ELSE LET bad == [tr EXCEPT !.Status = "failed", !.Error = TRUE] IN
                     /\ net' = net
                     /\ transfers' = SetTransfer(k.node, k.tid, bad)
                     /\ updates' = notifyTransferUpdate(k.node, k.tid, <<bad>>)
                     /\ tasks' = tasks (-) SetToBag({k})
                     /\ errs' = errs \cup {<<k.node, k.tid>>}
    /\ UNCHANGED <<regVars, chatVars, appVars, idVars, disk, link, dialogs, calls, discq, userOps, writes, cancelReq, panicked, injected>>

\* sendFile, the read that returns no bytes: the loop ends and the transfer is
\* marked completed
sendFileFinish(k) ==
    /\ BagIn(k, tasks) /\ k.pc = "loop"
    /\ LET tr == transfers[k.node][k.tid] IN
         /\ Min(chunkSize, tr.Size - k.totalSent) = 0
         /\ LET done == [tr EXCEPT !.Status = "completed", !.Progress = Hundred] IN
              /\ transfers' = SetTransfer(k.node, k.tid, done)
              /\ updates' = notifyTransferUpdate(k.node, k.tid, <<done>>)
    /\ tasks' = tasks (-) SetToBag({k})
    /\ UNCHANGED <<regVars, chatVars, appVars, idVars, disk, net, link, dialogs, calls, discq, userOps, writes, cancelReq, panicked, injected, errs>>

\* the sub-bag of the elements of B whose node is not n
NotOf(B, n) == [x \in {y \in DOMAIN B : y.node # n} |-> B[x]]

\* the transfer messages a peer can write that sendFileChunk would not: a data
\* chunk of any size and flag, a data message without its "data" field, bytes
\* that are not JSON
Foreign(n, t) ==
    {[Msg("data", RemotePeer(n), n, t) EXCEPT !.data = Chunk(t, 0, len), !.is_last = last] :
        len \in InjectLens, last \in BOOLEAN}
      \cup {Msg("data", RemotePeer(n), n, t), Msg("invalid", RemotePeer(n), n, t)}

\* the remote peer of n, running another program, writes m to a transfer substream
PeerWrites(n, m) ==
    /\ injected < MaxInjected
    /\ link
    /\ injected' = injected + 1
    /\ net' = net (+) SetToBag({m})
    /\ UNCHANGED <<regVars, chatVars, appVars, idVars, transfers, disk, tasks, link, dialogs, calls, discq, userOps, writes, updates, cancelReq, panicked, errs>>

\* OnMessage of bytes that are not JSON: json.Unmarshal fails, the message is
\* dropped
OnMessageInvalid(m) ==
    /\ BagIn(m, net) /\ m.type = "invalid"
    /\ net' = net (-) SetToBag({m})
    /\ UNCHANGED <<regVars, chatVars, appVars, idVars, transfers, disk, tasks, link, dialogs, calls, discq, userOps, writes, updates, cancelReq, panicked, injected, errs>>

\* handleTransferData of a message without the "data" field: the type assertion
\* data["data"].(string) panics, nothing recovers, the process of the node ends.
\* Its transfers, goroutines and connection are gone and the peer's registry
\* sees the disconnection; the files on disk stay.
handleTransferDataPanic(m) ==
    /\ BagIn(m, net) /\ m.type = "data" /\ m.data = NoData
    /\ panicked' = panicked \cup {m.to}
    /\ transfers' = [transfers EXCEPT ![m.to] = [t \in TIDs |-> NoTransfer]]
    /\ tasks' = NotOf(tasks, m.to)
    /\ writes' = NotOf(writes, m.to)
    /\ calls' = NotOf(calls, m.to)
    /\ dialogs' = {d \in dialogs : d[1] # m.to}
    /\ net' = [x \in {y \in DOMAIN net : y.to # m.to} |-> net[x]]
    /\ link' = FALSE
    /\ discq' = {d \in discq : d[1] # m.to} \cup (IF link THEN {<<m.from, m.to>>} ELSE {})
    /\ UNCHANGED <<regVars, chatVars, appVars, idVars, disk, userOps, updates, cancelReq, injected, errs>>

InFlight == BagToSet(net)

Running == BagToSet(tasks)

Writing == BagToSet(writes)

NextTransfer ==
    \/ \E n \in Senders, t \in TIDs, size \in FileSizes : SendFile(n, t, size)
    \/ \E m \in InFlight : OnMessageTruncated(m)
    \/ \E m \in InFlight : handleTransferOffer(m)
    \/ \E n \in Nodes, t \in TIDs, accepted \in BOOLEAN : OfferAnswered(n, t, accepted)
    \/ \E n \in Nodes, t \in TIDs, createOk \in BOOLEAN : AcceptTransfer(n, t, createOk)
    \/ \E n \in Nodes, t \in TIDs : RejectTransfer(n, t)
    \/ \E n \in Nodes, t \in TIDs : UserCancelTransfer(n, t)
    \/ LinkDown
    \/ \E n \in Nodes, p \in Peers : OnPeerDisconnected(n, p)
    \/ \E n \in Nodes, t \in TIDs : CancelAffected(n, t)
    \/ \E m \in InFlight : handleTransferAccept(m)
    \/ \E m \in InFlight : handleTransferReject(m)
    \/ \E m \in InFlight : handleTransferCancel(m)
    \/ \E m \in InFlight, writeOk \in BOOLEAN : handleTransferData(m, writeOk)
    \/ \E w \in Writing : handleTransferDataUpdate(w)
    \/ \E k \in Running, openOk \in BOOLEAN : sendFileOpen(k, openOk)
    \/ \E k \in Running, readOk \in BOOLEAN : sendFileChunk(k, readOk)
    \/ \E k \in Running : sendFileFinish(k)

\* ---------------------------------------------------------------------------
\* Chat: the chat manager of one node, its session registry as the chat manager
\* reads it, and the chat messages its peers write to it.

\* m.network.GetHost().ID() of the node whose chat manager is modelled
HostID == "B"

\* the remote peers of HostID
ChatPeers == {"A"}

\* the order of peer.ID.String() under the < of generateDirectRoomID
Rank == [A |-> 1, B |-> 2]

\* sessions of one peer in one run
MaxSessions == 2

\* SetNickname calls of one peer in one run
MaxRenames == 2

\* text messages one peer sends in one run
MaxTexts == 1

\* direct rooms one peer opens with HostID in one run
MaxJoins == 1

\* rooms the local user creates in one run
MaxLocalRooms == 1

\* messages written in one run by a peer that does not run this program
MaxForeign == 1

\* m.nickname of HostID
LocalNickname == "Bob"

\* the nicknames a remote user may choose
Nicknames == {"Alice", "Alicia"}

\* peerID.String()[:8], the nickname the Connected callback gives a new Peer
Placeholder(p) == "12D3Koo" \o p

\* generateDirectRoomID
generateDirectRoomID(peer1, peer2) ==
    IF Rank[peer1] < Rank[peer2]
      THEN "direct_" \o peer1 \o "_" \o peer2
      ELSE "direct_" \o peer2 \o "_" \o peer1

\* fmt.Sprintf("local_test_%d", time.Now().UnixNano())
LocalTestRoomID == "local_test_1"

\* a room identifier chosen by a peer that does not run this program
ForeignRoomID == "room_x"

RoomIDs ==
    {"global", LocalTestRoomID, ForeignRoomID}
      \cup {generateDirectRoomID(HostID, p) : p \in ChatPeers}

NoRoom == [none |-> TRUE]

NoParticipants == [q \in {} |-> ""]

Room(type, participants, messages) ==
    [Type |-> type, Participants |-> participants, Messages |-> messages]

\* Message{Content, Sender, SenderID, Type}
Message(type, sender, senderID, content) ==
    [Type |-> type, Sender |-> sender, SenderID |-> senderID, Content |-> content]

SystemMessage(content) == Message("system", "System", "", content)

\* room.Participants[p] = nickname
SetParticipant(participants, p, nickname) ==
    [q \in DOMAIN participants \cup {p} |-> IF q = p THEN nickname ELSE participants[q]]

\* _, exists := room.Participants[p] of a room of the table
HasParticipant(r, p) == rooms[r] # NoRoom /\ p \in DOMAIN rooms[r].Participants

\* ChatMessage{Type, Data} as read from a substream of peer from
ChatMessage(type, from) ==
    [type |-> type, from |-> from, sender_id |-> from, sender |-> "", room_id |-> "",
     room_type |-> "", participants |-> NoParticipants, old_nickname |-> "", new_nickname |-> ""]

\* one goroutine per peer event: go handler.OnPeerConnected(peer) carries the
\* Peer object, go handler.OnPeerDisconnected(peerID) the identifier
ChatEvent(kind, p, s) == [kind |-> kind, p |-> p, s |-> s]

\* a string whose pointer and length words come from two different values
Torn(a, b) == IF a = b THEN a ELSE "<torn>"

\* the nickname_change messages of p whose handler is about to write the
\* Nickname of the s-th Peer object of p
PendingWrites(p, s) ==
    {m \in BagToSet(chatNet) :
        m.type = "nickname_change" /\ m.from = p /\ online[p] /\ sessions[p] = s}

\* the values a read of peer.Nickname can return: the field is written by
\* updatePeerNickname and read by its readers without any lock, and a read that
\* overlaps a write sees the stored value or a mix of the stored and the new one
NicknameReads(p, s) ==
    {Nickname[p][s]} \cup {Torn(Nickname[p][s], m.new_nickname) : m \in PendingWrites(p, s)}

\* the values updatePeerNickname can leave in the field when the write of
\* another handler overlaps its own
NicknameWrites(m, p, s) ==
    {m.new_nickname}
      \cup {Torn(m.new_nickname, o.new_nickname) : o \in PendingWrites(p, s) \ {m}}

InitChat ==
    /\ rooms = [r \in RoomIDs |-> NoRoom]
    /\ globalRoom = "nil"
    /\ online = [p \in ChatPeers |-> FALSE]
    /\ sessions = [p \in ChatPeers |-> 0]
    /\ Nickname = [p \in ChatPeers |-> [s \in 1..MaxSessions |-> ""]]
    /\ chatEv = EmptyBag
    /\ chatNet = EmptyBag
    /\ renaming = EmptyBag
    /\ remoteNick = [p \in ChatPeers |-> "Alice"]
    /\ announced = [p \in ChatPeers |-> ""]
    /\ chatOps = [renames |-> 0, texts |-> 0, joins |-> 0, localRooms |-> 0, foreign |-> 0]
    /\ held = {}
    /\ mNickname = LocalNickname

\* chat.Manager.Start: createGlobalRoom
ChatStart ==
    /\ globalRoom = "nil"
    /\ held = {}
    /\ rooms' = [rooms EXCEPT !["global"] =
                   Room("global", SetParticipant(NoParticipants, HostID, mNickname),
                        <<SystemMessage("Welcome to Shario! " \o mNickname \o " joined the global chat.")>>)]
    /\ globalRoom' = "global"
    /\ UNCHANGED <<regVars, xferVars, appVars, idVars, held, mNickname, online, sessions, Nickname, chatEv, chatNet, renaming,
                   remoteNick, announced, chatOps>>

\* networkNotifiee.Connected of the first connection of p: a new Peer with the
\* placeholder nickname is stored and notifyPeerConnected spawns the handler
Connected(p) ==
    /\ ~online[p] /\ sessions[p] < MaxSessions
    /\ online' = [online EXCEPT ![p] = TRUE]
    /\ sessions' = [sessions EXCEPT ![p] = @ + 1]
    /\ Nickname' = [Nickname EXCEPT ![p][sessions[p] + 1] = Placeholder(p)]
    /\ chatEv' = chatEv (+) SetToBag({ChatEvent("connected", p, sessions[p] + 1)})
    /\ UNCHANGED <<regVars, xferVars, appVars, idVars, held, mNickname, rooms, globalRoom, chatNet, renaming, remoteNick,
                   announced, chatOps>>

\* networkNotifiee.Disconnected of the last connection of p: the Peer is deleted
\* and notifyPeerDisconnected spawns the handler
Disconnected(p) ==
    /\ online[p]
    /\ online' = [online EXCEPT ![p] = FALSE]
    /\ chatEv' = chatEv (+) SetToBag({ChatEvent("disconnected", p, sessions[p])})
    /\ UNCHANGED <<regVars, xferVars, appVars, idVars, held, mNickname, rooms, globalRoom, sessions, Nickname, chatNet, renaming,
                   remoteNick, announced, chatOps>>

\* addPeerToGlobalRoom of a Peer object whose Nickname is read as n1 for the
\* participants and as n2 for the message
addPeerToGlobalRoom(p, n1, n2) ==
    IF globalRoom = "nil" \/ HasParticipant("global", p)
      THEN rooms
      ELSE [rooms EXCEPT !["global"] =
              Room(@.Type, SetParticipant(@.Participants, p, n1),
                   Append(@.Messages, SystemMessage(n2 \o " joined the global chat")))]

\* chat.Manager.OnPeerConnected
OnPeerConnectedChat(e) ==
    /\ BagIn(e, chatEv) /\ e.kind = "connected"
    /\ held = {}
    /\ chatEv' = chatEv (-) SetToBag({e})
    /\ \E n1, n2 \in NicknameReads(e.p, e.s) : rooms' = addPeerToGlobalRoom(e.p, n1, n2)
    /\ UNCHANGED <<regVars, xferVars, appVars, idVars, held, mNickname, globalRoom, online, sessions, Nickname, chatNet, renaming,
                   remoteNick, announced, chatOps>>

\* addSystemMessage
addSystemMessage(room, content) ==
    Room(room.Type, room.Participants, Append(room.Messages, SystemMessage(content)))

\* chat.Manager.OnPeerDisconnected: a system message in every room with the peer
OnPeerDisconnectedChat(e) ==
    /\ BagIn(e, chatEv) /\ e.kind = "disconnected"
    /\ held = {}
    /\ chatEv' = chatEv (-) SetToBag({e})
    /\ rooms' = [r \in RoomIDs |->
                   IF HasParticipant(r, e.p)
                     THEN addSystemMessage(rooms[r], rooms[r].Participants[e.p] \o " has disconnected")
                     ELSE rooms[r]]
    /\ UNCHANGED <<regVars, xferVars, appVars, idVars, held, mNickname, globalRoom, online, sessions, Nickname, chatNet, renaming,
                   remoteNick, announced, chatOps>>

\* chat.Manager.SetNickname on peer p: broadcastNicknameChange sends a
\* nickname_change to every peer of its registry, each in its own goroutine and
\* on its own substream
SetNickname(p, nickname) ==
    /\ chatOps.renames < MaxRenames
    /\ nickname # remoteNick[p]
    /\ chatOps' = [chatOps EXCEPT !.renames = @ + 1]
    /\ remoteNick' = [remoteNick EXCEPT ![p] = nickname]
    /\ IF online[p]
         THEN /\ chatNet' = chatNet (+) SetToBag({[ChatMessage("nickname_change", p) EXCEPT
                                !.old_nickname = remoteNick[p], !.new_nickname = nickname]})
              /\ announced' = [announced EXCEPT ![p] = nickname]
         ELSE UNCHANGED <<chatNet, announced>>
    /\ UNCHANGED <<regVars, xferVars, appVars, idVars, held, mNickname, rooms, globalRoom, online, sessions, Nickname, chatEv,
                   renaming>>

\* chat.Manager.SendMessage on peer p in a room it shares with HostID:
\* sendMessageToPeer stamps the message with the sender's own nickname
SendMessageChat(p, roomID) ==
    /\ chatOps.texts < MaxTexts
    /\ online[p]
    /\ chatOps' = [chatOps EXCEPT !.texts = @ + 1]
    /\ chatNet' = chatNet (+) SetToBag({[ChatMessage("text", p) EXCEPT
                      !.sender = remoteNick[p], !.room_id = roomID]})
    /\ UNCHANGED <<regVars, xferVars, appVars, idVars, held, mNickname, rooms, globalRoom, online, sessions, Nickname, chatEv,
                   renaming, remoteNick, announced>>

\* chat.Manager.CreateDirectRoom on peer p for HostID: sendJoinMessage carries
\* the room with p under its own nickname and HostID under the nickname the
\* registry of p holds
CreateDirectRoomRemote(p) ==
    /\ chatOps.joins < MaxJoins
    /\ online[p]
    /\ chatOps' = [chatOps EXCEPT !.joins = @ + 1]
    /\ chatNet' = chatNet (+) SetToBag({[ChatMessage("join", p) EXCEPT
                      !.room_id = generateDirectRoomID(p, HostID), !.room_type = "direct",
                      !.participants = SetParticipant(SetParticipant(NoParticipants, p, remoteNick[p]),
                                                      HostID, Placeholder(HostID))]})
    /\ UNCHANGED <<regVars, xferVars, appVars, idVars, held, mNickname, rooms, globalRoom, online, sessions, Nickname, chatEv,
                   renaming, remoteNick, announced>>

\* chat.Manager.CreateDirectRoom of the local user for a peer of the peer list,
\* under the nickname the list shows, up to the call of sendJoinMessage: m.mutex
\* is locked, its unlock deferred, and an existing room is returned at once
CreateDirectRoom(p) ==
    /\ chatOps.localRooms < MaxLocalRooms
    /\ online[p]
    /\ held = {}
    /\ chatOps' = [chatOps EXCEPT !.localRooms = @ + 1]
    /\ LET roomID == generateDirectRoomID(HostID, p) IN
       IF rooms[roomID] # NoRoom
         THEN UNCHANGED <<rooms, held>>
         ELSE /\ rooms' = [rooms EXCEPT ![roomID] =
                            Room("direct",
                                 SetParticipant(SetParticipant(NoParticipants, HostID, mNickname),
                                                p, Nickname[p][sessions[p]]),
                                 << >>)]
              /\ held' = {"m.mutex"}
    /\ UNCHANGED <<regVars, xferVars, appVars, idVars, mNickname, globalRoom, online, sessions, Nickname, chatEv, chatNet,
                   renaming, remoteNick, announced>>

\* CreateDirectRoom from sendJoinMessage on: sendChatMessage calls
\* network.Manager.SendMessage, which opens a substream to the peer and writes
\* the join message to it (or fails and is logged); the message leaves the node,
\* CreateDirectRoom returns and the deferred unlock runs
sendJoinMessage ==
    /\ held # {}
    /\ held' = {}
    /\ UNCHANGED <<regVars, xferVars, appVars, idVars, mNickname, rooms, globalRoom, online, sessions, Nickname,
                   chatEv, chatNet, renaming, remoteNick, announced, chatOps>>

\* chat.Manager.CreateLocalTestRoom
CreateLocalTestRoom ==
    /\ chatOps.localRooms < MaxLocalRooms
    /\ held = {}
    /\ chatOps' = [chatOps EXCEPT !.localRooms = @ + 1]
    /\ rooms' = [rooms EXCEPT ![LocalTestRoomID] =
                   Room("local_test", SetParticipant(NoParticipants, HostID, mNickname),
                        <<SystemMessage("Welcome to the test room! This is a local-only room for testing chat functionality.")>>)]
    /\ UNCHANGED <<regVars, xferVars, appVars, idVars, held, mNickname, globalRoom, online, sessions, Nickname, chatEv, chatNet,
                   renaming, remoteNick, announced>>

\* chat.Manager.SetNickname of the local user: m.nickname is assigned; when the
\* old nickname is not empty and differs, broadcastNicknameChange sends the
\* change to the peers of the registry (the messages leave the node) and calls
\* updateNicknameInRooms, unless the registry has no peer. updateNicknameInRooms
\* renames, in each room, the first participant of the map iteration whose
\* nickname is the old one: pick[r] is that participant of room r.
SetNicknameLocal(nickname) ==
    /\ held = {}
    /\ mNickname' = nickname
    /\ IF mNickname # "" /\ mNickname # nickname /\ \E p \in ChatPeers : online[p]
         THEN \E pick \in [RoomIDs -> ChatPeers \cup {HostID}] :
                /\ \A r \in RoomIDs :
                      (rooms[r] # NoRoom /\ \E q \in DOMAIN rooms[r].Participants :
                                              rooms[r].Participants[q] = mNickname)
                        => /\ pick[r] \in DOMAIN rooms[r].Participants
                           /\ rooms[r].Participants[pick[r]] = mNickname
                /\ rooms' = [r \in RoomIDs |->
                               IF HasParticipant(r, pick[r]) /\ rooms[r].Participants[pick[r]] = mNickname
                                 THEN Room(rooms[r].Type,
                                           SetParticipant(rooms[r].Participants, pick[r], nickname),
                                           rooms[r].Messages)
                                 ELSE rooms[r]]
         ELSE UNCHANGED rooms
    /\ UNCHANGED <<regVars, xferVars, appVars, idVars, held, globalRoom, online, sessions, Nickname, chatEv,
                   chatNet, renaming, remoteNick, announced, chatOps>>

\* getCurrentPeerNickname: the values it can return
getCurrentPeerNickname(peerID) ==
    IF peerID \in ChatPeers /\ online[peerID]
      THEN NicknameReads(peerID, sessions[peerID])
      ELSE IF globalRoom # "nil" /\ HasParticipant("global", peerID)
        THEN {rooms["global"].Participants[peerID]}
        ELSE {""}

\* handleTextMessage
handleTextMessage(m) ==
    /\ BagIn(m, chatNet) /\ m.type = "text"
    /\ held = {}
    /\ chatNet' = chatNet (-) SetToBag({m})
    /\ \E currentNickname \in getCurrentPeerNickname(m.sender_id) :
         LET Sender == IF currentNickname = "" THEN m.sender ELSE currentNickname
             room == IF rooms[m.room_id] # NoRoom
                       THEN rooms[m.room_id]
                       ELSE Room("direct",
                                 SetParticipant(SetParticipant(NoParticipants, HostID, mNickname),
                                                m.from, Sender),
                                 << >>)
         IN rooms' = [rooms EXCEPT ![m.room_id] =
                        Room(room.Type, room.Participants,
                             Append(room.Messages, Message("text", Sender, m.sender_id, "hello")))]
    /\ UNCHANGED <<regVars, xferVars, appVars, idVars, held, mNickname, globalRoom, online, sessions, Nickname, chatEv, renaming,
                   remoteNick, announced, chatOps>>

\* handleJoinMessage
handleJoinMessage(m) ==
    /\ BagIn(m, chatNet) /\ m.type = "join"
    /\ held = {}
    /\ chatNet' = chatNet (-) SetToBag({m})
    /\ IF m.room_id = "global"
         THEN IF online[m.from]
                THEN \E n1, n2 \in NicknameReads(m.from, sessions[m.from]) :
                        rooms' = addPeerToGlobalRoom(m.from, n1, n2)
                ELSE UNCHANGED rooms
         ELSE rooms' = [rooms EXCEPT ![m.room_id] =
                          addSystemMessage(
                              Room(m.room_type, m.participants, << >>),
                              "Joined chat with "
                                \o (IF m.from \in DOMAIN m.participants THEN m.participants[m.from] ELSE ""))]
    /\ UNCHANGED <<regVars, xferVars, appVars, idVars, held, mNickname, globalRoom, online, sessions, Nickname, chatEv, renaming,
                   remoteNick, announced, chatOps>>

\* updatePeerNickname: the Nickname of the Peer the registry holds for p
updatePeerNickname(p, newNickname) ==
    IF online[p] THEN [Nickname EXCEPT ![p][sessions[p]] = newNickname] ELSE Nickname

\* updatePeerNicknameInRooms
updatePeerNicknameInRooms(p, newNickname) ==
    [r \in RoomIDs |->
        IF HasParticipant(r, p)
          THEN Room(rooms[r].Type, SetParticipant(rooms[r].Participants, p, newNickname),
                    rooms[r].Messages)
          ELSE rooms[r]]

\* handleNicknameChange up to the end of updatePeerNickname
handleNicknameChange(m) ==
    /\ BagIn(m, chatNet) /\ m.type = "nickname_change"
    /\ chatNet' = chatNet (-) SetToBag({m})
    /\ \E written \in NicknameWrites(m, m.from, sessions[m.from]) :
         Nickname' = updatePeerNickname(m.from, written)
    /\ renaming' = renaming (+) SetToBag({m})
    /\ UNCHANGED <<regVars, xferVars, appVars, idVars, held, mNickname, rooms, globalRoom, online, sessions, chatEv, remoteNick,
                   announced, chatOps>>

\* handleNicknameChange from updatePeerNicknameInRooms on: the rooms of the peer
\* and the system message of the global room
handleNicknameChangeRooms(m) ==
    /\ BagIn(m, renaming)
    /\ held = {}
    /\ renaming' = renaming (-) SetToBag({m})
    /\ LET updated == updatePeerNicknameInRooms(m.from, m.new_nickname) IN
       rooms' = IF globalRoom = "nil"
                  THEN updated
                  ELSE [updated EXCEPT !["global"] =
                          addSystemMessage(@, m.old_nickname \o " changed their nickname to "
                                                \o m.new_nickname)]
    /\ UNCHANGED <<regVars, xferVars, appVars, idVars, held, mNickname, globalRoom, online, sessions, Nickname, chatEv, chatNet,
                   remoteNick, announced, chatOps>>

\* handleNicknameChange from updatePeerNicknameInRooms up to the append of the
\* system message: the participants are updated under m.mutex, then, with only
\* the lock of the global room held, the append reads the slice room.Messages
handleNicknameChangeLoad(m) ==
    /\ BagIn(m, renaming) /\ "seen" \notin DOMAIN m
    /\ held = {}
    /\ \A x \in BagToSet(renaming) : "seen" \notin DOMAIN x
    /\ rooms' = updatePeerNicknameInRooms(m.from, m.new_nickname)
    /\ renaming' = IF globalRoom = "nil"
                     THEN renaming (-) SetToBag({m})
                     ELSE (renaming (-) SetToBag({m}))
                            (+) SetToBag({m @@ [seen |-> rooms["global"].Messages]})
    /\ UNCHANGED <<regVars, xferVars, appVars, idVars, held, mNickname, globalRoom, online, sessions, Nickname,
                   chatEv, chatNet, remoteNick, announced, chatOps>>

\* handleNicknameChange, the end of the append: the slice it read, extended by
\* the system message, is stored in room.Messages and the room is unlocked.
\* addPeerToGlobalRoom appends to the same slice under m.mutex alone, so its
\* append can come between the read and this store.
handleNicknameChangeStore(x) ==
    /\ BagIn(x, renaming) /\ "seen" \in DOMAIN x
    /\ renaming' = renaming (-) SetToBag({x})
    /\ rooms' = [rooms EXCEPT !["global"] =
                   Room(@.Type, @.Participants,
                        Append(x.seen, SystemMessage(x.old_nickname \o " changed their nickname to "
                                                       \o x.new_nickname)))]
    /\ UNCHANGED <<regVars, xferVars, appVars, idVars, held, mNickname, globalRoom, online, sessions, Nickname,
                   chatEv, chatNet, remoteNick, announced, chatOps>>

\* the chat messages a peer can write that the chat manager would not: a join
\* for a room without the receiving node, a join for a direct room of three, a
\* text for a room identifier of its choice, a text for the global room whose
\* sender_id field is the identifier of another node
ForeignChat(p) ==
    {[ChatMessage("join", p) EXCEPT !.room_id = ForeignRoomID, !.room_type = type,
                                    !.participants = SetParticipant(NoParticipants, p, "Mallory")] :
        type \in {"direct", "group"}}
      \cup {[ChatMessage("text", p) EXCEPT !.sender = "Mallory", !.room_id = ForeignRoomID]}
      \cup {[ChatMessage("text", p) EXCEPT !.sender = "Mallory", !.sender_id = HostID,
                                          !.room_id = "global"]}

\* peer p, running another program, writes m to a chat substream
PeerWritesChat(p, m) ==
    /\ chatOps.foreign < MaxForeign
    /\ online[p]
    /\ chatOps' = [chatOps EXCEPT !.foreign = @ + 1]
    /\ chatNet' = chatNet (+) SetToBag({m})
    /\ UNCHANGED <<regVars, xferVars, appVars, idVars, held, mNickname, rooms, globalRoom, online, sessions, Nickname, chatEv,
                   renaming, remoteNick, announced>>

\* start-up, the peer events of the registry, and the renames and text messages
\* of the peers
NextChatNick ==
    \/ ChatStart
    \/ \E p \in ChatPeers : Connected(p)
    \/ \E p \in ChatPeers : Disconnected(p)
    \/ \E e \in BagToSet(chatEv) : OnPeerConnectedChat(e)
    \/ \E e \in BagToSet(chatEv) : OnPeerDisconnectedChat(e)
    \/ \E p \in ChatPeers, nickname \in Nicknames : SetNickname(p, nickname)
    \/ \E p \in ChatPeers : \E roomID \in {"global", generateDirectRoomID(p, HostID)} : SendMessageChat(p, roomID)
    \/ \E m \in BagToSet(chatNet) : handleTextMessage(m)
    \/ \E m \in BagToSet(chatNet) : handleNicknameChange(m)
    \/ \E m \in BagToSet(renaming) : handleNicknameChangeRooms(m)

\* start-up, the connections and the renames of the peers, with the append of
\* the nickname-change handler taken as the read and the store of the slice
NextChatAppend ==
    \/ ChatStart
    \/ \E p \in ChatPeers : Connected(p)
    \/ \E e \in BagToSet(chatEv) : OnPeerConnectedChat(e)
    \/ \E p \in ChatPeers, nickname \in Nicknames : SetNickname(p, nickname)
    \/ \E m \in BagToSet(chatNet) : handleNicknameChange(m)
    \/ \E m \in BagToSet(renaming) : handleNicknameChangeLoad(m)
    \/ \E x \in BagToSet(renaming) : handleNicknameChangeStore(x)

\* the ways a room enters the room table, with honest peers
NextChatRooms ==
    \/ ChatStart
    \/ \E p \in ChatPeers : Connected(p)
    \/ \E e \in BagToSet(chatEv) : OnPeerConnectedChat(e)
    \/ \E p \in ChatPeers : \E roomID \in {"global", generateDirectRoomID(p, HostID)} : SendMessageChat(p, roomID)
    \/ \E p \in ChatPeers : CreateDirectRoomRemote(p)
    \/ \E p \in ChatPeers : CreateDirectRoom(p)
    \/ sendJoinMessage
    \/ CreateLocalTestRoom
    \/ \E m \in BagToSet(chatNet) : handleTextMessage(m)
    \/ \E m \in BagToSet(chatNet) : handleJoinMessage(m)

\* the same with a local user who changes the nickname, to one a peer uses or to
\* a new one
NextChatLocal ==
    \/ NextChatRooms
    \/ \E nickname \in Nicknames \cup {"Bobby"} : SetNicknameLocal(nickname)

\* the same with a peer that may run another program
NextChatUntrusted ==
    \/ NextChatRooms
    \/ \E p \in ChatPeers : \E m \in ForeignChat(p) : PeerWritesChat(p, m)

\* ---------------------------------------------------------------------------
\* Application life cycle: the root context, the discovery loops that watch it
\* and the listeners of the host. The state is the one the process holds for as
\* long as it runs.

\* the goroutines of startMDNSDiscovery, startDHTDiscovery and announcePresence
\* that loop on a ticker and on m.ctx.Done()
DiscoveryLoops == {"mdns", "dht", "announce"}

\* app.New: network.New has created the host, which listens, and no loop runs
InitApp ==
    /\ ctx = [n \in Nodes |-> "new"]
    /\ loops = [n \in Nodes |-> {}]
    /\ listening = [n \in Nodes |-> TRUE]

\* network.Manager.Start, the goroutine of App.Run: the three loops are started
NetworkStart(n) ==
    /\ ctx[n] = "new"
    /\ ctx' = [ctx EXCEPT ![n] = "running"]
    /\ loops' = [loops EXCEPT ![n] = DiscoveryLoops]
    /\ UNCHANGED <<regVars, xferVars, chatVars, idVars, listening>>

\* App.Shutdown, or App.Run after the GUI loop has ended: a.cancel() cancels the
\* root context, from which the context of the network manager derives; nothing
\* else is called
Shutdown(n) ==
    /\ ctx[n] = "running"
    /\ ctx' = [ctx EXCEPT ![n] = "done"]
    /\ UNCHANGED <<regVars, xferVars, chatVars, idVars, loops, listening>>

\* case <-m.ctx.Done(): return, in each loop
LoopExit(n, l) ==
    /\ ctx[n] = "done" /\ l \in loops[n]
    /\ loops' = [loops EXCEPT ![n] = @ \ {l}]
    /\ UNCHANGED <<regVars, xferVars, chatVars, idVars, ctx, listening>>

\* ---------------------------------------------------------------------------
\* Identity: the identity manager of one process and its identity file.
\* Nicknames are sequences of characters, keys are named.

\* calls on the identity manager in one run
MaxIdentityCalls == 3

\* peer.IDFromPublicKey(privateKey.GetPublic()), injective in the key
IDFromPublicKey(key) == "Qm" \o key

\* Nickname: "Anonymous" of createIdentity
Anonymous == <<"A", "n", "o", "n", "y", "m", "o", "u", "s">>

\* the texts a user may submit as a nickname
NicknameInputs == {<< >>, <<" ">>, <<"a">>, <<" ", "a">>, <<"a", " ">>, <<" ", "a", " ">>}

\* strings.TrimSpace
RECURSIVE TrimSpace(_)
TrimSpace(s) ==
    IF s = << >> THEN s
    ELSE IF Head(s) = " " THEN TrimSpace(Tail(s))
    ELSE IF s[Len(s)] = " " THEN TrimSpace(SubSeq(s, 1, Len(s) - 1))
    ELSE s

NoIdentity == [none |-> TRUE]

\* Identity{Nickname, PrivateKey, PeerID} as json.MarshalIndent writes it
Identity(nickname, key, peerID) == [Nickname |-> nickname, PrivateKey |-> key, PeerID |-> peerID]

\* the contents an identity file or an imported backup can have: an Identity
\* whose peer_id is or is not the one of its private key, or bytes that
\* json.Unmarshal or the key decoding rejects
IdentityFiles ==
    {Identity(nickname, key, IDFromPublicKey(k)) :
        nickname \in {Anonymous, <<"a">>}, key \in {"k1", "k2"}, k \in {"k1", "k2"}}
      \cup {[invalid |-> TRUE]}

\* the fields loadIdentity and ImportIdentity set from a parsed Identity
Loaded(f) == [identity |-> f, privateKey |-> f.PrivateKey, peerID |-> IDFromPublicKey(f.PrivateKey)]

IdCall(op, arg, err) == [n |-> idCall.n + 1, op |-> op, arg |-> arg, err |-> err]

\* before identity.New
InitIdentity ==
    /\ identity = NoIdentity
    /\ idFile = NoIdentity
    /\ idCall = [n |-> 0, op |-> "none", arg |-> NoIdentity, err |-> FALSE]

\* identity.New: loadOrCreateIdentity runs loadIdentity when the file exists and
\* createIdentity, with a fresh key, when it does not
NewIdentity(key, saveOk) ==
    /\ identity = NoIdentity /\ idCall.n < MaxIdentityCalls
    /\ IF idFile = NoIdentity
         THEN LET created == Identity(Anonymous, key, IDFromPublicKey(key)) IN
              /\ idCall' = IdCall("create", created, ~saveOk)
              /\ idFile' = IF saveOk THEN created ELSE idFile
              /\ identity' = IF saveOk THEN Loaded(created) ELSE identity
         ELSE /\ idCall' = IdCall("load", idFile, idFile = [invalid |-> TRUE])
              /\ identity' = IF idCall'.err THEN identity ELSE Loaded(idFile)
              /\ UNCHANGED idFile
    /\ UNCHANGED <<regVars, xferVars, chatVars, appVars>>

\* identity.Manager.ImportIdentity
ImportIdentity(data, saveOk) ==
    /\ identity # NoIdentity /\ idCall.n < MaxIdentityCalls
    /\ LET ok == /\ data # [invalid |-> TRUE]
                 /\ IDFromPublicKey(data.PrivateKey) = data.PeerID
                 /\ saveOk
       IN /\ idCall' = IdCall("import", data, ~ok)
          /\ idFile' = IF ok THEN data ELSE idFile
          /\ identity' = IF ok THEN Loaded(data) ELSE identity
    /\ UNCHANGED <<regVars, xferVars, chatVars, appVars>>

\* identity.Manager.SetNickname, called by nicknameEntry.OnSubmitted with the
\* text of the entry, and by the Update button when strings.TrimSpace of the
\* text is not empty
SetNicknameIdentity(nickname, button, saveOk) ==
    /\ identity # NoIdentity /\ idCall.n < MaxIdentityCalls
    /\ button => TrimSpace(nickname) # << >>
    /\ idCall' = IdCall("SetNickname", nickname, ~saveOk)
    /\ identity' = [identity EXCEPT !.identity.Nickname = nickname]
    /\ idFile' = IF saveOk THEN identity'.identity ELSE idFile
    /\ UNCHANGED <<regVars, xferVars, chatVars, appVars>>

\* the process ends; its identity file stays
ProcessEnds ==
    /\ identity # NoIdentity
    /\ identity' = NoIdentity
    /\ UNCHANGED <<regVars, xferVars, chatVars, appVars, idFile, idCall>>

\* while no process runs, the identity file is replaced from outside
FileEdited(f) ==
    /\ identity = NoIdentity /\ idFile # NoIdentity /\ idFile # f
    /\ idFile' = f
    /\ UNCHANGED <<regVars, xferVars, chatVars, appVars, identity, idCall>>

NextIdentity ==
    \/ \E key \in {"k1", "k2"}, saveOk \in BOOLEAN : NewIdentity(key, saveOk)
    \/ \E data \in IdentityFiles, saveOk \in BOOLEAN : ImportIdentity(data, saveOk)
    \/ \E nickname \in NicknameInputs, button, saveOk \in BOOLEAN :
          SetNicknameIdentity(nickname, button, saveOk)
    \/ ProcessEnds
    \/ \E f \in IdentityFiles : FileEdited(f)

Init == InitRegistry /\ InitTransfer /\ InitChat /\ InitApp /\ InitIdentity

\* the transfer operations in a network where a third peer comes and goes
NextDisconnect ==
    \/ NextTransfer
    \/ \E n \in Nodes : OtherPeerDown(n)

\* the steps the scheduler and the transport take without the user while the
\* connection lasts and no file operation fails: inbound handlers, spawned
\* goroutines, the offer handler's answer
DeliveryStep ==
    \/ \E m \in InFlight : OnMessageTruncated(m)
    \/ \E m \in InFlight : handleTransferOffer(m)
    \/ \E n \in Nodes, t \in TIDs, accepted \in BOOLEAN : OfferAnswered(n, t, accepted)
    \/ \E n \in Nodes, t \in TIDs : AcceptTransfer(n, t, TRUE)
    \/ \E n \in Nodes, t \in TIDs : RejectTransfer(n, t)
    \/ \E m \in InFlight : handleTransferAccept(m)
    \/ \E m \in InFlight : handleTransferReject(m)
    \/ \E m \in InFlight : handleTransferData(m, TRUE)
    \/ \E w \in Writing : handleTransferDataUpdate(w)
    \/ \E k \in Running : sendFileOpen(k, TRUE)
    \/ \E k \in Running : sendFileChunk(k, TRUE)
    \/ \E k \in Running : sendFileFinish(k)

\* a run in which the connection lasts, no file operation fails and the user
\* only sends files
NextDelivery ==
    \/ \E n \in Senders, t \in TIDs, size \in FileSizes : SendFile(n, t, size)
    \/ DeliveryStep

\* every goroutine that can run is eventually run, every message written to a
\* substream is eventually handled, every offer is eventually answered
FairSpecDelivery == Init /\ [][NextDelivery]_vars /\ WF_vars(DeliveryStep)

\* a run in which no file operation fails and the user only sends files, while
\* the remote peer may run another program
NextUntrusted ==
    \/ NextDelivery
    \/ \E n \in Nodes, t \in TIDs : \E m \in Foreign(n, t) : PeerWrites(n, m)
    \/ \E m \in InFlight : OnMessageInvalid(m)
    \/ \E m \in InFlight : handleTransferDataPanic(m)
    \/ \E n \in Nodes, p \in Peers : OnPeerDisconnected(n, p)
    \/ \E n \in Nodes, t \in TIDs : CancelAffected(n, t)

\* the transfer messages that name a transfer of node n without being part of
\* its exchange: an accept, a reject, a cancel and a data chunk written by a third
\* peer connected to n, and an offer and an accept written by the peer of n
Forged(n, t) ==
    {Msg(type, OtherPeer, n, t) : type \in {"accept", "reject", "cancel"}}
      \cup {[Msg("data", OtherPeer, n, t) EXCEPT !.data = Chunk(t, 0, 3)]}
      \cup {Msg(type, RemotePeer(n), n, t) : type \in {"offer", "accept"}}

\* a peer of n writes m, a message no run of this program would send it, to a
\* transfer substream
PeerForges(n, m) ==
    /\ injected < MaxForged
    /\ injected' = injected + 1
    /\ net' = net (+) SetToBag({m})
    /\ UNCHANGED <<regVars, chatVars, appVars, idVars, transfers, disk, tasks, link, dialogs, calls, discq, userOps, writes, updates, cancelReq, panicked, errs>>

\* the fault-free run of the transfers while such messages arrive
NextForged ==
    \/ NextDelivery
    \/ \E n \in Nodes, t \in TIDs : \E m \in Forged(n, t) : PeerForges(n, m)
    \/ \E m \in InFlight : handleTransferCancel(m)

\* the fault-free run of the transfers together with the life cycle of the two
\* applications
NextShutdown ==
    \/ NextDelivery
    \/ \E n \in Nodes : NetworkStart(n)
    \/ \E n \in Nodes : Shutdown(n)
    \/ \E n \in Nodes, l \in DiscoveryLoops : LoopExit(n, l)

\* as FairSpecDelivery, and every loop that can observe the cancellation
\* eventually does
FairSpecShutdown ==
    /\ Init /\ [][NextShutdown]_vars
    /\ WF_vars(DeliveryStep)
    /\ WF_vars(\E n \in Nodes, l \in DiscoveryLoops : LoopExit(n, l))

(***************************************************************************)
(* File transfer: properties                                               *)
(***************************************************************************)
Exists(n, t) == transfers[n][t] # NoTransfer

\* C5: a transfer whose status is completed, failed or cancelled keeps that
\* status in every later state.
C5_TerminalIsFinal ==
    [][\A n \in Nodes, t \in TIDs :
          (Exists(n, t) /\ transfers[n][t].Status \in Terminal)
            => (transfers'[n][t] # NoTransfer /\ transfers'[n][t].Status = transfers[n][t].Status)]_vars

\* C6: a receiving transfer is completed only if the SHA-256 of the bytes written
\* to the destination file equals the checksum of the offer.
C6_CompletedImpliesDigest ==
    \A n \in Nodes, t \in TIDs :
        (Exists(n, t) /\ transfers[n][t].Direction = "receive" /\ transfers[n][t].Status = "completed")
          => calculateChecksum(disk[n][t]) = transfers[n][t].Checksum

\* C7: the destination file holds the chunks in chunk-index order: its i-th chunk
\* is the chunk of index i - 1.
C7_ChunksInIndexOrder ==
    \A n \in Nodes, t \in TIDs : \A i \in 1..Len(disk[n][t]) : disk[n][t][i].idx = i - 1

\* C8: every data message written to a substream fits the single read of the
\* receiving stream handler.
C8_FrameFitsReadBuffer ==
    \A m \in InFlight : m.type = "data" => FrameLen(m) <= StreamReadBuf

\* C9: under fair scheduling and delivery every transfer, on the sender and on
\* the receiver, eventually enters a terminal status.
C9_EventuallyTerminal ==
    \A n \in Nodes, t \in TIDs :
        [](Exists(n, t) => <>(Exists(n, t) /\ transfers[n][t].Status \in Terminal))

\* C10: every change of a transfer's status is an edge of the state machine:
\* pending -> active, pending -> cancelled, active -> completed, active ->
\* cancelled, pending or active -> failed.
C10_StatusEdges ==
    [][\A n \in Nodes, t \in TIDs :
          (Exists(n, t) /\ transfers'[n][t] # NoTransfer
             /\ transfers'[n][t].Status # transfers[n][t].Status)
            => LET from == transfers[n][t].Status
                   to   == transfers'[n][t].Status
               IN  \/ from = "pending" /\ to \in {"active", "cancelled", "failed"}
                   \/ from = "active" /\ to \in {"completed", "cancelled", "failed"}]_vars

\* the cancel message of transfer t has been delivered: CancelTransfer was called
\* on one side while t was pending or active, no cancel message is in flight and
\* both sides are cancelled
CancelDelivered(t) ==
    /\ \E n \in Nodes : <<n, t>> \in cancelReq
    /\ \A m \in InFlight : ~(m.type = "cancel" /\ m.tid = t)
    /\ \A n \in Nodes : Exists(n, t) /\ transfers[n][t].Status = "cancelled"

\* C11: once a cancel of a pending or active transfer has been delivered and both
\* sides are cancelled, both stay cancelled, the receiver's file is not open, and
\* no step sends a data chunk, writes to the file, changes the bytes transferred
\* or the progress, or reports a new update for the transfer.
C11_CancelStops ==
    [][\A t \in TIDs :
          CancelDelivered(t)
            => /\ \A n \in Nodes :
                    /\ transfers'[n][t] # NoTransfer
                    /\ transfers'[n][t].Status = "cancelled"
                    /\ transfers'[n][t].Transferred = transfers[n][t].Transferred
                    /\ transfers'[n][t].Progress = transfers[n][t].Progress
                    /\ transfers[n][t].file # "open"
                    /\ disk'[n][t] = disk[n][t]
               /\ \A m \in BagToSet(net') :
                    (m.type = "data" /\ m.tid = t) => CopiesIn(m, net') <= CopiesIn(m, net)
               /\ {u \in updates' : u.tid = t} = {u \in updates : u.tid = t}]_vars

\* the transfers OnPeerDisconnected(p) on node n has to cancel
Affected(n, p) ==
    {t \in TIDs : /\ Exists(n, t)
                  /\ transfers[n][t].PeerID = p
                  /\ transfers[n][t].Status \in {"pending", "active"}}

C13_TransferredAtMostSize ==
    \A n \in Nodes, t \in TIDs :
        Exists(n, t) => transfers[n][t].Transferred <= transfers[n][t].Size

\* a <= b for two progress values as float64 compares them: false when either is
\* NaN, +Inf above every finite value
Leq(a, b) ==
    IF (a.d = 0 /\ a.n = 0) \/ (b.d = 0 /\ b.n = 0) THEN FALSE
    ELSE IF b.d = 0 THEN TRUE
    ELSE IF a.d = 0 THEN FALSE
    ELSE \/ a.n \div a.d < b.n \div b.d
         \/ /\ a.n \div a.d = b.n \div b.d
            /\ (a.n % a.d) * b.d <= (b.n % b.d) * a.d

\* C14: no step decreases the bytes transferred or the progress of a transfer.
C14_ProgressMonotone ==
    [][\A n \in Nodes, t \in TIDs :
          (Exists(n, t) /\ transfers'[n][t] # NoTransfer)
            => /\ transfers[n][t].Transferred <= transfers'[n][t].Transferred
               /\ Leq(transfers[n][t].Progress, transfers'[n][t].Progress)]_vars

\* m is not what the handlers expect: not JSON, or a field is missing
Malformed(m) == m.type = "invalid" \/ (m.type = "data" /\ m.data = NoData)

\* C18: the step that handles a malformed message changes no transfer, file,
\* goroutine or pending call, and ends no process.
C18_MalformedDropped ==
    [][\A m \in InFlight :
          (Malformed(m) /\ CopiesIn(m, net') < CopiesIn(m, net))
            => /\ transfers' = transfers /\ disk' = disk
               /\ tasks' = tasks /\ writes' = writes /\ calls' = calls /\ dialogs' = dialogs
               /\ link' = link
               /\ panicked' = panicked]_vars

\* C15: in every state handed to the transfer-update subscriber the progress is
\* 100 exactly when the status is completed.
C15_HundredIffCompleted ==
    \A u \in updates : (u.Progress = Hundred) <=> (u.Status = "completed")

\* C16: once the receiver's offer handler has accepted, with no cancel,
\* disconnection or I/O error, both sides eventually are completed with progress
\* 100 and the receiver's file holds the sender's bytes.
C16_DeliveredIntact ==
    \A t \in TIDs :
        [](BagIn(Call("B", "accept", t), calls)
             => <>(/\ \A n \in Nodes :
                        /\ Exists(n, t)
                        /\ transfers[n][t].Status = "completed"
                        /\ transfers[n][t].Progress = Hundred
                   /\ disk["B"][t] = FileContent(t, transfers["A"][t].Size)))

\* C17: the step in which an I/O error occurs in an operation on a transfer
\* leaves that transfer failed with an error description and changes no other
\* transfer.
C17_ErrorFailsThatTransfer ==
    [][\A n \in Nodes, t \in TIDs :
          (<<n, t>> \in errs' /\ <<n, t>> \notin errs)
            => /\ transfers'[n][t] # NoTransfer
               /\ transfers'[n][t].Status = "failed"
               /\ transfers'[n][t].Error
               /\ \A m \in Nodes, u \in TIDs :
                     <<m, u>> # <<n, t>> => transfers'[m][u] = transfers[m][u]]_vars

\* the sendFile goroutines of transfer t on node n that hold the source file open
Streaming(n, t) == {k \in Running : k.node = n /\ k.tid = t /\ k.pc = "loop"}

\* C19: a transfer in a terminal status holds no open file: the receiver's
\* destination file is not open and no sendFile goroutine of the sender is
\* between os.Open and the deferred Close.
C19_TerminalHoldsNoFile ==
    \A n \in Nodes, t \in TIDs :
        (Exists(n, t) /\ transfers[n][t].Status \in Terminal)
          => transfers[n][t].file # "open" /\ Streaming(n, t) = {}

C21_ChunkCarries1024 ==
    \A m \in InFlight :
        (m.type = "data" /\ m.from \in Senders)
          => IF m.is_last THEN m.data.len <= 1024 ELSE m.data.len = 1024

\* C22: every OnPeerConnected(p) the chat manager handles leaves p among the
\* participants of the global room and appends one "p joined" system message to
\* the global room, whether or not the global room had been created and whether
\* or not p had been connected before.
C22_ConnectedJoinsGlobal ==
    [][\A e \in BagToSet(chatEv) :
          (e.kind = "connected" /\ CopiesIn(e, chatEv') < CopiesIn(e, chatEv))
            => /\ HasParticipant("global", e.p)'
               /\ \E n \in Nicknames \cup {Placeholder(e.p), "<torn>"} :
                    rooms'["global"].Messages =
                        Append(IF rooms["global"] = NoRoom THEN << >> ELSE rooms["global"].Messages,
                               SystemMessage(n \o " joined the global chat"))]_vars

\* C23: when a peer has renamed, once or several times, during its connection
\* to the node and all its nickname_change messages have been handled, every
\* room of the node that has the peer among its participants maps it to the
\* peer's current nickname.
C23_RenameReachesRooms ==
    \A p \in ChatPeers :
        (/\ online[p] /\ sessions[p] = 1 /\ announced[p] = remoteNick[p]
         /\ \A m \in BagToSet(chatNet) \cup BagToSet(renaming) :
               ~(m.type = "nickname_change" /\ m.from = p))
          => \A r \in RoomIDs : HasParticipant(r, p) => rooms[r].Participants[p] = remoteNick[p]

\* C24: when the handler of a nickname_change of p returns, the registry holds
\* the new nickname for p, every room with p maps p to the new nickname and
\* nothing else in any participants map has changed, and the global room has
\* gained exactly the system message "<old> changed their nickname to <new>".
C24_NicknameChangeApplied ==
    [][\A m \in BagToSet(renaming) :
          CopiesIn(m, renaming') < CopiesIn(m, renaming)
            => /\ online[m.from] => Nickname'[m.from][sessions[m.from]] = m.new_nickname
               /\ \A r \in RoomIDs :
                    IF HasParticipant(r, m.from)
                      THEN rooms'[r].Participants
                             = SetParticipant(rooms[r].Participants, m.from, m.new_nickname)
                      ELSE r # "global" => rooms'[r] = rooms[r]
               /\ rooms'["global"] # NoRoom
               /\ rooms'["global"].Messages =
                    Append(IF rooms["global"] = NoRoom THEN << >> ELSE rooms["global"].Messages,
                           SystemMessage(m.old_nickname \o " changed their nickname to "
                                           \o m.new_nickname))]_vars

\* C25: a text message of a sender the registry holds is stored under the
\* nickname the registry holds for the sender when the message is handled,
\* whatever nickname the message is stamped with and whatever renames of the
\* sender are handled before or after it.
C25_StoredUnderRegistryNickname ==
    [][\A m \in BagToSet(chatNet) :
          (m.type = "text" /\ CopiesIn(m, chatNet') < CopiesIn(m, chatNet)
             /\ m.sender_id \in ChatPeers /\ online[m.sender_id])
            => LET stored == rooms'[m.room_id].Messages[Len(rooms'[m.room_id].Messages)]
               IN stored.Sender = Nickname[m.sender_id][sessions[m.sender_id]]]_vars

\* C26: every room of the room table has the local node among its participants.
C26_LocalNodeParticipates ==
    \A r \in RoomIDs : rooms[r] # NoRoom => HostID \in DOMAIN rooms[r].Participants

\* C27: generateDirectRoomID does not depend on the order of its arguments, and
\* every room of type direct has exactly two participants and the identifier
\* generateDirectRoomID gives for them.
C27_DirectRoomOfTwo ==
    /\ \A a, b \in ChatPeers \cup {HostID} : generateDirectRoomID(a, b) = generateDirectRoomID(b, a)
    /\ \A r \in RoomIDs :
         (rooms[r] # NoRoom /\ rooms[r].Type = "direct")
           => /\ Cardinality(DOMAIN rooms[r].Participants) = 2
              /\ \E a, b \in DOMAIN rooms[r].Participants :
                   a # b /\ r = generateDirectRoomID(a, b)

\* C28: once the root context of a node is cancelled, its discovery loops end,
\* its host closes its listeners, every transfer of the node that is not yet
\* terminal becomes cancelled, and no transfer of the node keeps a file open.
C28_CancellationReleases ==
    \A n \in Nodes :
        /\ [](ctx[n] = "done"
                => <>(/\ loops[n] = {}
                      /\ ~listening[n]
                      /\ \A t \in TIDs : Exists(n, t)
                            => transfers[n][t].file # "open" /\ Streaming(n, t) = {}))
        /\ \A t \in TIDs :
             []((ctx[n] = "done" /\ Exists(n, t) /\ transfers[n][t].Status \notin Terminal)
                  => <>(Exists(n, t) /\ transfers[n][t].Status = "cancelled"))

\* a call has just been made on the identity manager
Called(op) == idCall'.n # idCall.n /\ idCall'.op = op

\* C29: loading or importing an identity whose private key does not yield the
\* peer identifier stored with it fails and leaves the identity manager without
\* the identity of that file.
C29_TamperedIdentityRejected ==
    [][\A op \in {"load", "import"} :
          (Called(op) /\ idCall'.arg # [invalid |-> TRUE]
             /\ IDFromPublicKey(idCall'.arg.PrivateKey) # idCall'.arg.PeerID)
            => idCall'.err /\ identity' = identity]_vars

\* C30: SetNickname of the identity manager stores the nickname without its
\* surrounding whitespace, in memory and in the file, and a nickname that is
\* empty once trimmed is rejected with an error and changes neither.
C30_NicknameTrimmedOrRejected ==
    [][Called("SetNickname")
         => IF TrimSpace(idCall'.arg) = << >>
              THEN idCall'.err /\ identity' = identity /\ idFile' = idFile
              ELSE ~idCall'.err
                     => /\ identity'.identity.Nickname = TrimSpace(idCall'.arg)
                        /\ idFile'.Nickname = TrimSpace(idCall'.arg)]_vars

\* C31: no lock is held while a task opens a substream, writes to a substream or
\* does file I/O: no task is inside network.Manager.SendMessage while it holds
\* the lock of the chat manager, so creating a direct room does not send the join
\* message under that lock.
C31_NoLockAcrossSend == held = {}

\* C32: every write to a Peer entry of the peer table is made under the writer
\* lock of the Session Registry and every read under at least its reader lock, so
\* that no access overlaps a write: whatever task reads the Nickname of the Peer
\* of a connected peer, at any time, reads a nickname that was stored whole, the
\* placeholder of the Connected callback or a nickname the peer announced.
C32_PeerEntryExclusive ==
    \A p \in ChatPeers :
        online[p] => NicknameReads(p, sessions[p]) \subseteq Nicknames \cup {Placeholder(p)}

\* C33: every append to the message sequence of a room is made under the lock of
\* that room, so that under any interleaving of the handlers no appended message
\* is lost or reordered: in every step the messages a room held before the step
\* are the first messages it holds after it, in the same order.
C33_AppendOnly ==
    [][\A r \in RoomIDs :
          (rooms[r] # NoRoom /\ rooms'[r] # NoRoom)
            => /\ Len(rooms'[r].Messages) >= Len(rooms[r].Messages)
               /\ SubSeq(rooms'[r].Messages, 1, Len(rooms[r].Messages)) = rooms[r].Messages]_vars

\* C34: an inbound accept, reject, cancel or data message changes a transfer only
\* when it comes from the peer recorded as the transfer's peer: the handling of
\* such a message from any other peer leaves the transfer, the files and the
\* streaming tasks as they were.
C34_OnlyFromTransferPeer ==
    [][\A m \in InFlight :
          (/\ m.type \in {"accept", "reject", "cancel", "data"}
           /\ CopiesIn(m, net') < CopiesIn(m, net)
           /\ Exists(m.to, m.tid)
           /\ transfers[m.to][m.tid].PeerID # m.from)
            => /\ transfers'[m.to][m.tid] = transfers[m.to][m.tid]
               /\ tasks' = tasks /\ disk' = disk /\ writes' = writes]_vars

\* C35: the sender identifier recorded for an inbound text message is the
\* authenticated remote identifier of the substream it arrived on: the message
\* the handler of a text appends to the room carries, as SenderID, the peer the
\* text was read from.
C35_SenderIsStreamPeer ==
    [][\A m \in BagToSet(chatNet) :
          (m.type = "text" /\ CopiesIn(m, chatNet') < CopiesIn(m, chatNet))
            => LET stored == rooms'[m.room_id].Messages
               IN  stored[Len(stored)].SenderID = m.from]_vars

\* C36: an inbound offer whose transfer_id is already in the transfer table does
\* not replace the entry: the handling of the offer leaves the direction, the
\* status, the peer and the file handle of the existing transfer unchanged.
C36_OfferKeepsExisting ==
    [][\A m \in InFlight :
          (/\ m.type = "offer"
           /\ CopiesIn(m, net') < CopiesIn(m, net)
           /\ Exists(m.to, m.tid))
            => LET old == transfers[m.to][m.tid]
                   new == transfers'[m.to][m.tid]
               IN  /\ new.Direction = old.Direction /\ new.Status = old.Status
                   /\ new.PeerID = old.PeerID /\ new.file = old.file]_vars

\* C37: at most one streaming task (sendFile) runs per sending transfer: a second
\* or late accept for the same transfer identifier starts no additional stream.
C37_OneStreamPerTransfer ==
    \A k1 \in Running :
        /\ CopiesIn(k1, tasks) = 1
        /\ \A k2 \in Running : (k1.node = k2.node /\ k1.tid = k2.tid) => k1 = k2

\* C38: whenever all Connected and Disconnected callbacks have finished, the
\* identifiers in the peer table are the identifiers to which the transport
\* holds at least one live connection.
C38_TableMatchesTransport ==
    Quiescent => {p \in PeerIDs : peers[p] # NoPeer} = {p \in PeerIDs : live[p] # {}}

\* C39: a local nickname change from a non-empty nickname to a different one
\* changes, in every room, only the participant entry of the local node: the
\* entry of every remote participant is what it was, also when its nickname is
\* the old nickname of the local node.
C39_LocalRenameFrame ==
    [][(mNickname # "" /\ mNickname' # mNickname)
         => \A r \in RoomIDs :
              rooms[r] # NoRoom
                => \A q \in DOMAIN rooms[r].Participants \ {HostID} :
                      /\ HasParticipant(r, q)'
                      /\ rooms'[r].Participants[q] = rooms[r].Participants[q]]_vars

\* C40: an inbound join whose room_id is already in the room table leaves that
\* room's history and participants intact: after the join is handled the room
\* still holds the messages it held, as the first of its messages, and every
\* participant entry it held.
C40_JoinKeepsRoom ==
    [][\A m \in BagToSet(chatNet) :
          (/\ m.type = "join"
           /\ CopiesIn(m, chatNet') < CopiesIn(m, chatNet)
           /\ rooms[m.room_id] # NoRoom)
            => LET old == rooms[m.room_id]
                   new == rooms'[m.room_id]
               IN  /\ Len(new.Messages) >= Len(old.Messages)
                   /\ SubSeq(new.Messages, 1, Len(old.Messages)) = old.Messages
                   /\ \A q \in DOMAIN old.Participants :
                         /\ q \in DOMAIN new.Participants
                         /\ new.Participants[q] = old.Participants[q]]_vars

SpecRegistry == Init /\ [][NextRegistry]_vars

SpecTransfer == Init /\ [][NextTransfer]_vars

SpecDisconnect == Init /\ [][NextDisconnect]_vars

SpecUntrusted == Init /\ [][NextUntrusted]_vars

SpecChatNick == Init /\ [][NextChatNick]_vars

SpecChatRooms == Init /\ [][NextChatRooms]_vars

SpecChatUntrusted == Init /\ [][NextChatUntrusted]_vars

SpecChatAppend == Init /\ [][NextChatAppend]_vars

SpecForged == Init /\ [][NextForged]_vars

SpecChatLocal == Init /\ [][NextChatLocal]_vars

SpecIdentity == Init /\ [][NextIdentity]_vars

====
